---- MODULE Spec2Model ----
(***************************************************************************)
(* VoiceEquation (src/app.py): a microphone recorder (AudioRecorder), the  *)
(* prefix-stripping formatter call (text_to_latex) and the Tk controller   *)
(* (MainApplication) that wires them to the event loop.                    *)
(***************************************************************************)
EXTENDS Integers, Sequences, FiniteSets, TLC

(* ------------------------------ bounds -------------------------------- *)
MaxAudio == 3
MaxChunk == 2
MaxLeaked == 1
MaxFiles == 1
MaxPending == 1
MaxTime == 1
MaxPieces == 3

(* ------------------------------ values -------------------------------- *)
Samples == {1, 2}

\* indata of one callback: MaxChunk frames at most.
ChunksOf(S) == UNION {[1..n -> S] : n \in 1..MaxChunk}

Chunks == ChunksOf(Samples)

\* Under the controller the microphone hears one sample value: what the
\* pipeline does with a buffer depends on no sample.
AppChunks == ChunksOf({1})

None == -1

Prefix == <<"L", "a", "T", "e", "X", " ", "c", "o", "d", "e", ":", " ">>

LowerPrefix == <<"l", "a", "t", "e", "x", " ", "c", "o", "d", "e", ":", " ">>

ExampleLatex ==
  <<"A", " ", "=", " ", "\\", "t", "a", "n", "^", "{", "-", "1", "}", "(", "x", ")">>

ExampleTranscript == "A equals tan inverse x"

Transcripts == {ExampleTranscript, "x squared"}

Responses == {Prefix \o ExampleLatex, <<"x", "^", "2">>}

(* ------------------------------- state -------------------------------- *)
VARIABLES
  \* AudioRecorder
  rec_recording,    \* AudioRecorder.recording
  audio_data,       \* AudioRecorder.audio_data
  stream,           \* the object AudioRecorder.stream names: unset/open/active/closed
  leaked,           \* streams no attribute names any more and nobody closed
  \* the capture thread and the caller of the recorder
  delivered,        \* history: samples the callback was handed since the last start
  ret,              \* outcome of the last direct call of the recorder
  h_session,        \* the direct caller's own view: "idle" or "armed"
  cb,               \* the capture thread inside callback: flag read, indata held
  \* MainApplication
  app_recording,    \* MainApplication.recording
  start_time,       \* MainApplication.start_time
  transcribed_text, \* MainApplication.transcribed_text
  latex_code,       \* MainApplication.latex_code
  trans_text,       \* content of the trans_text widget
  latex_text,       \* content of the latex_text widget
  status_var,       \* MainApplication.status_var
  btn_text,         \* text of record_btn
  clipboard,        \* pyperclip's clipboard
  after_update_ui,  \* an after(100, update_ui) timer is scheduled
  \* the event loop and the environment
  pc,               \* where the main thread is: loop / transcribe / format
  pending,          \* toggle events Tk has queued for the main loop
  now,              \* the last value time.time() gave
  tmpfiles,         \* how many .wav files exist in the temporary directory
  wav,              \* frames in stop_recording's tmpfile while it runs
  groq_io,          \* last chat completion: user turn and response content
  req               \* per toggle request: external calls made, error boxes raised

rec_vars == <<rec_recording, audio_data, stream, leaked>>

harness_vars == <<delivered, ret, h_session, cb>>

app_vars ==
  <<app_recording, start_time, transcribed_text, latex_code, trans_text,
    latex_text, status_var, btn_text, clipboard, after_update_ui>>

env_vars == <<pc, pending, now, tmpfiles, wav, groq_io, req>>

vars == <<rec_vars, harness_vars, app_vars, env_vars>>

NoRet == [kind |-> "none", buf |-> <<>>]

\* The capture thread is not inside callback.
NoCall == [at |-> "out", flag |-> FALSE, indata |-> <<>>]

NoReq == [whisper |-> 0, groq |-> 0, errs |-> 0]

Status(text) == [text |-> text, secs |-> 0]

\* AudioRecorder.__init__ and MainApplication.__init__, before any call of the
\* remote completion.
Constructed ==
  /\ rec_recording = FALSE
  /\ audio_data = <<>>
  /\ stream = "unset"
  /\ leaked = [open |-> 0, active |-> 0]
  /\ delivered = <<>>
  /\ ret = NoRet
  /\ h_session = "idle"
  /\ cb = NoCall
  /\ app_recording = FALSE
  /\ start_time = None
  /\ transcribed_text = ""
  /\ latex_code = <<>>
  /\ trans_text = ""
  /\ latex_text = <<>>
  /\ status_var = Status("")
  /\ btn_text = "Start Recording"
  /\ clipboard = [src |-> "none", text |-> "", latex |-> <<>>]
  /\ after_update_ui = TRUE
  /\ pc = "loop"
  /\ pending = <<>>
  /\ now = 0
  /\ tmpfiles = 0
  /\ wav = <<>>
  /\ req = NoReq

Init == Constructed /\ groq_io = [arg |-> "", result |-> <<>>]

(* --------------------------- AudioRecorder ---------------------------- *)
StartOutcomes == {"ok", "open_fail", "start_fail"}

StopOutcomes == {"ok", "stop_fail", "close_fail"}

Unclosed(s) == s \in {"open", "active"}

LeakedTotal == leaked.open + leaked.active

ActiveStreams == leaked.active + (IF stream = "active" THEN 1 ELSE 0)

OpenStreams == LeakedTotal + (IF Unclosed(stream) THEN 1 ELSE 0)

\* Rebinding self.stream drops the only reference to the stream it named.
Rebind(s) ==
  IF Unclosed(s) THEN [leaked EXCEPT ![s] = @ + 1] ELSE leaked

\* callback(indata, ...): runs while some stream of this recorder is started.
AudioRecorder_callback(indata) ==
  /\ audio_data' = IF rec_recording THEN audio_data \o indata ELSE audio_data
  /\ UNCHANGED <<rec_recording, stream, leaked>>

\* start_recording() without line 55: the list of the session before stays.
AudioRecorder_start_recording_keeps(o) ==
  /\ rec_recording' = TRUE
  /\ audio_data' = audio_data
  /\ stream' = CASE o = "open_fail" -> stream
                 [] o = "start_fail" -> "open"
                 [] OTHER -> "active"
  /\ leaked' = IF o = "open_fail" THEN leaked ELSE Rebind(stream)

\* start_recording(): "open_fail" is sd.InputStream(...) raising, "start_fail"
\* is stream.start() raising.
AudioRecorder_start_recording(o) ==
  /\ rec_recording' = TRUE
  /\ audio_data' = <<>>
  /\ stream' = CASE o = "open_fail" -> stream
                 [] o = "start_fail" -> "open"
                 [] OTHER -> "active"
  /\ leaked' = IF o = "open_fail" THEN leaked ELSE Rebind(stream)

\* stop_recording() returns (rather than raises): self.stream exists and
\* neither stream.stop() nor stream.close() raised.
StopReturns(o) == stream # "unset" /\ o = "ok"

AudioRecorder_stop_recording(o) ==
  /\ rec_recording' = FALSE
  /\ stream' = CASE stream = "unset" -> stream
                 [] o = "stop_fail" -> stream
                 [] o = "close_fail" -> (IF stream = "active" THEN "open" ELSE stream)
                 [] OTHER -> "closed"
  /\ UNCHANGED <<audio_data, leaked>>

(* ------------------- the capture thread's deliveries ------------------ *)
Deliver(chunks) ==
  /\ ActiveStreams > 0
  /\ \E indata \in chunks :
       /\ Len(delivered) + Len(indata) <= MaxAudio
       /\ AudioRecorder_callback(indata)
       /\ delivered' = delivered \o indata
  /\ UNCHANGED <<ret, h_session, cb, app_vars, env_vars>>

Callback == Deliver(Chunks)

AppCallback == Deliver(AppChunks)

(* ------------------ direct callers of the recorder -------------------- *)
CallStart ==
  /\ \E o \in StartOutcomes :
       /\ (o # "open_fail" /\ Unclosed(stream)) => LeakedTotal < MaxLeaked
       /\ AudioRecorder_start_recording(o)
       /\ ret' = [kind |-> IF o = "ok" THEN "started" ELSE "raised", buf |-> <<>>]
       /\ h_session' = IF o = "ok" THEN "armed" ELSE h_session
  /\ delivered' = <<>>
  /\ UNCHANGED <<cb, app_vars, env_vars>>

CallStop ==
  /\ \E o \in StopOutcomes :
       /\ AudioRecorder_stop_recording(o)
       /\ ret' = IF StopReturns(o)
                 THEN [kind |-> "returned", buf |-> audio_data]
                 ELSE [kind |-> "raised", buf |-> <<>>]
  /\ h_session' = "idle"
  /\ UNCHANGED <<delivered, cb, app_vars, env_vars>>

\* A caller that keeps to one session at a time.
NextRecorder ==
  \/ (h_session = "idle" /\ CallStart)
  \/ (h_session = "armed" /\ CallStop)
  \/ Callback

SpecRecorder == Init /\ [][NextRecorder]_vars

\* A caller that keeps to no protocol.
NextMisuse ==
  \/ CallStart
  \/ CallStop
  \/ Callback

SpecMisuse == Init /\ [][NextMisuse]_vars

(* ------------- the recorder with its two threads interleaved ---------- *)
\* The capture thread enters callback and evaluates self.recording (line 50).
EnterCallback ==
  /\ cb.at = "out"
  /\ ActiveStreams > 0
  /\ \E indata \in Chunks :
       /\ Len(delivered) + Len(indata) <= MaxAudio
       /\ cb' = [at |-> "checked", flag |-> rec_recording, indata |-> indata]
       /\ delivered' = delivered \o indata
  /\ UNCHANGED <<rec_vars, ret, h_session, app_vars, env_vars>>

\* It extends the list if the flag it read was set (line 51), and returns.
ExtendCallback ==
  /\ cb.at = "checked"
  /\ audio_data' = IF cb.flag THEN audio_data \o cb.indata ELSE audio_data
  /\ cb' = NoCall
  /\ UNCHANGED <<rec_recording, stream, leaked, delivered, ret, h_session,
                 app_vars, env_vars>>

\* The main thread in stop_recording: line 65 alone.
ClearFlag ==
  /\ h_session = "armed"
  /\ rec_recording' = FALSE
  /\ h_session' = "stopping"
  /\ UNCHANGED <<audio_data, stream, leaked, delivered, ret, cb, app_vars,
                 env_vars>>

\* Lines 66-68: stream.stop() returns once the callback in progress has
\* returned; then close and the copy of the list.
StopStream ==
  /\ h_session = "stopping"
  /\ \E o \in StopOutcomes :
       /\ o # "stop_fail" => cb.at = "out"
       /\ AudioRecorder_stop_recording(o)
       /\ ret' = IF StopReturns(o)
                 THEN [kind |-> "returned", buf |-> audio_data]
                 ELSE [kind |-> "raised", buf |-> <<>>]
  /\ h_session' = "idle"
  /\ UNCHANGED <<delivered, cb, app_vars, env_vars>>

NextThreads ==
  \/ (h_session = "idle" /\ CallStart)
  \/ ClearFlag
  \/ StopStream
  \/ EnterCallback
  \/ ExtendCallback

SpecThreads == Init /\ [][NextThreads]_vars

(* --------------------------- text_to_latex ---------------------------- *)
startswith(s, p) == Len(s) >= Len(p) /\ SubSeq(s, 1, Len(p)) = p

PrefixChars == {Prefix[i] : i \in 1..Len(Prefix)}

\* content.lstrip("LaTeX code: ") in place of lines 82-83.
text_to_latex_lstrip(content) ==
  LET k == CHOOSE j \in 0..Len(content) :
             /\ \A i \in 1..j : content[i] \in PrefixChars
             /\ j = Len(content) \/ content[j + 1] \notin PrefixChars
  IN  SubSeq(content, k + 1, Len(content))

\* text_to_latex(text), given the content the chat completion answered with.
text_to_latex(content) ==
  IF startswith(content, Prefix)
  THEN SubSeq(content, Len(Prefix) + 1, Len(content))
  ELSE content

(* -------------------------- MainApplication --------------------------- *)
FileOutcomes == {"ok", "tmp_fail", "write_fail"}

\* time.time(): never before the value it gave last.
Clock == {t \in now..(now + 1) : t <= MaxTime}

\* The controller state the user sees; the code keeps no Processing flag,
\* the main thread is simply inside stop_recording.
CtlState ==
  IF pc # "loop" THEN "Processing"
  ELSE IF app_recording THEN "Recording" ELSE "Idle"

MainApplication_start_recording(o, t) ==
  /\ AudioRecorder_start_recording(o)
  /\ delivered' = <<>>
  /\ IF o = "ok"
     THEN /\ app_recording' = TRUE
          /\ start_time' = t
          /\ now' = t
          /\ btn_text' = "Stop Recording"
          /\ status_var' = Status("Recording...")
          /\ req' = NoReq
     ELSE /\ req' = [NoReq EXCEPT !.errs = 1]
          /\ UNCHANGED <<app_recording, start_time, now, btn_text, status_var>>
  /\ UNCHANGED <<ret, h_session, cb, transcribed_text, latex_code,
                 trans_text, latex_text, clipboard, after_update_ui, pc,
                 tmpfiles, wav, groq_io>>

\* stop_recording() up to the blocking transcribe call (lines 208-220): "w" is
\* what creating and writing the temporary .wav file does.
MainApplication_stop_recording(o, w) ==
  /\ AudioRecorder_stop_recording(o)
  /\ IF ~StopReturns(o)
     THEN /\ req' = [NoReq EXCEPT !.errs = 1]
          /\ status_var' = Status("Error occurred")
          /\ UNCHANGED <<app_recording, btn_text, tmpfiles, wav, pc>>
     ELSE /\ app_recording' = FALSE
          /\ btn_text' = "Start Recording"
          /\ tmpfiles' = IF w = "tmp_fail" THEN tmpfiles ELSE tmpfiles + 1
          /\ IF w = "ok"
             THEN /\ wav' = audio_data
                  /\ pc' = "transcribe"
                  /\ req' = NoReq
                  /\ status_var' = Status("Processing audio...")
             ELSE /\ wav' = <<>>
                  /\ pc' = "loop"
                  /\ req' = [NoReq EXCEPT !.errs = 1]
                  /\ status_var' = Status("Error occurred")
  /\ UNCHANGED <<delivered, ret, h_session, cb, start_time, now,
                 transcribed_text, latex_code, trans_text, latex_text,
                 clipboard, after_update_ui, groq_io>>

\* An except clause that also empties the two text widgets.
TranscribeFailed_wipes ==
  /\ req' = [req EXCEPT !.whisper = @ + 1, !.errs = @ + 1]
  /\ status_var' = Status("Error occurred")
  /\ pc' = "loop"
  /\ wav' = <<>>
  /\ trans_text' = ""
  /\ latex_text' = <<>>
  /\ UNCHANGED <<tmpfiles, transcribed_text, latex_code, groq_io>>

\* whisper_model.transcribe(tmpfile.name) raised: the with block closes the
\* file, os.unlink (line 234) is skipped, except Exception (235-237) runs.
TranscribeFailed ==
  /\ req' = [req EXCEPT !.whisper = @ + 1, !.errs = @ + 1]
  /\ status_var' = Status("Error occurred")
  /\ pc' = "loop"
  /\ wav' = <<>>
  /\ UNCHANGED <<tmpfiles, transcribed_text, latex_code, trans_text,
                 latex_text, groq_io>>

\* whisper_model.transcribe(tmpfile.name) returned: lines 223-224.
Transcribed(text) ==
  /\ transcribed_text' = text
  /\ req' = [req EXCEPT !.whisper = @ + 1]
  /\ pc' = "format"
  /\ UNCHANGED <<tmpfiles, wav, latex_code, trans_text, latex_text,
                 status_var, groq_io>>

Transcribe ==
  /\ pc = "transcribe"
  /\ \/ (tmpfiles <= MaxFiles /\ TranscribeFailed)
     \/ \E text \in Transcripts : Transcribed(text)
  /\ UNCHANGED <<rec_vars, harness_vars, app_recording, start_time, btn_text,
                 clipboard, after_update_ui, pending, now>>

\* The transcript widget updated right after line 224, before the formatter
\* is called.
FormatFailed_shows ==
  /\ groq_io' = [arg |-> transcribed_text, result |-> <<>>]
  /\ req' = [req EXCEPT !.groq = @ + 1, !.errs = @ + 1]
  /\ status_var' = Status("Error occurred")
  /\ pc' = "loop"
  /\ wav' = <<>>
  /\ trans_text' = transcribed_text
  /\ UNCHANGED <<tmpfiles, transcribed_text, latex_code, latex_text>>

\* client.chat.completions.create raised inside text_to_latex (line 76): no
\* assignment of line 225, then as for a failed transcription.
FormatFailed ==
  /\ groq_io' = [arg |-> transcribed_text, result |-> <<>>]
  /\ req' = [req EXCEPT !.groq = @ + 1, !.errs = @ + 1]
  /\ status_var' = Status("Error occurred")
  /\ pc' = "loop"
  /\ wav' = <<>>
  /\ UNCHANGED <<tmpfiles, transcribed_text, latex_code, trans_text, latex_text>>

\* Line 231 inserting the response as received instead of self.latex_code.
Formatted_raw(content) ==
  /\ groq_io' = [arg |-> transcribed_text, result |-> content]
  /\ latex_code' = text_to_latex(content)
  /\ trans_text' = transcribed_text
  /\ latex_text' = content
  /\ status_var' = Status("Ready")
  /\ tmpfiles' = tmpfiles - 1
  /\ wav' = <<>>
  /\ req' = [req EXCEPT !.groq = @ + 1]
  /\ pc' = "loop"
  /\ UNCHANGED transcribed_text

\* text_to_latex returned: the display update and the unlink (225-234).
Formatted(content) ==
  /\ groq_io' = [arg |-> transcribed_text, result |-> content]
  /\ latex_code' = text_to_latex(content)
  /\ trans_text' = transcribed_text
  /\ latex_text' = latex_code'
  /\ status_var' = Status("Ready")
  /\ tmpfiles' = tmpfiles - 1
  /\ wav' = <<>>
  /\ req' = [req EXCEPT !.groq = @ + 1]
  /\ pc' = "loop"
  /\ UNCHANGED transcribed_text

Format ==
  /\ pc = "format"
  /\ \/ (tmpfiles <= MaxFiles /\ FormatFailed)
     \/ \E content \in Responses : Formatted(content)
  /\ UNCHANGED <<rec_vars, harness_vars, app_recording, start_time, btn_text,
                 clipboard, after_update_ui, pending, now>>

toggle_recording ==
  IF ~app_recording
  THEN \E o \in StartOutcomes, t \in Clock :
         /\ o = "start_fail" => LeakedTotal < MaxLeaked
         /\ MainApplication_start_recording(o, t)
  ELSE \E o \in StopOutcomes, w \in FileOutcomes :
         /\ w = "write_fail" => tmpfiles < MaxFiles
         /\ MainApplication_stop_recording(o, w)

copy_text ==
  /\ pc = "loop"
  /\ clipboard' = [src |-> "text", text |-> transcribed_text, latex |-> <<>>]
  /\ status_var' = Status("Text copied to clipboard!")
  /\ UNCHANGED <<rec_vars, harness_vars, app_recording, start_time,
                 transcribed_text, latex_code, trans_text, latex_text, btn_text,
                 after_update_ui, pc, pending, now, tmpfiles, wav, groq_io, req>>

copy_latex ==
  /\ pc = "loop"
  /\ clipboard' = [src |-> "latex", text |-> "", latex |-> latex_code]
  /\ status_var' = Status("LaTeX copied to clipboard!")
  /\ UNCHANGED <<rec_vars, harness_vars, app_recording, start_time,
                 transcribed_text, latex_code, trans_text, latex_text, btn_text,
                 after_update_ui, pc, pending, now, tmpfiles, wav, groq_io, req>>

\* update_ui without the test of line 248.
update_ui_always ==
  /\ pc = "loop"
  /\ after_update_ui
  /\ \E t \in Clock :
       /\ now' = t
       /\ status_var' =
            [text |-> "Recording... %d seconds", secs |-> t - start_time]
  /\ after_update_ui' = TRUE
  /\ UNCHANGED <<rec_vars, harness_vars, app_recording, start_time,
                 transcribed_text, latex_code, trans_text, latex_text, btn_text,
                 clipboard, pc, pending, tmpfiles, wav, groq_io, req>>

update_ui ==
  /\ pc = "loop"
  /\ after_update_ui
  /\ IF app_recording
     THEN \E t \in Clock :
            /\ now' = t
            /\ status_var' =
                 [text |-> "Recording... %d seconds", secs |-> t - start_time]
     ELSE UNCHANGED <<now, status_var>>
  /\ after_update_ui' = TRUE
  /\ UNCHANGED <<rec_vars, harness_vars, app_recording, start_time,
                 transcribed_text, latex_code, trans_text, latex_text, btn_text,
                 clipboard, pc, pending, tmpfiles, wav, groq_io, req>>

(* --------------------------- the event loop --------------------------- *)
\* The record button or the space key: Tk queues the event, also while the
\* main thread is inside a handler, and records nothing else about it; "busy"
\* remembers that it was issued while stop_recording was running.
UserToggle ==
  /\ Len(pending) < MaxPending
  /\ pending' = Append(pending, [kind |-> "toggle", busy |-> pc # "loop"])
  /\ UNCHANGED <<rec_vars, harness_vars, app_vars, pc, now, tmpfiles, wav,
                 groq_io, req>>

\* The binding run as soon as the event arrives, as it would be with the
\* pipeline on a worker thread or an update() call inside it.
DispatchToggle_reentrant ==
  /\ pending # <<>>
  /\ pending' = Tail(pending)
  /\ toggle_recording

\* mainloop() hands the oldest queued event to its binding.
DispatchToggle ==
  /\ pc = "loop"
  /\ pending # <<>>
  /\ pending' = Tail(pending)
  /\ toggle_recording

Next ==
  \/ UserToggle
  \/ AppCallback
  \/ DispatchToggle
  \/ copy_text
  \/ copy_latex
  \/ Transcribe
  \/ Format
  \/ update_ui

Spec == Init /\ [][Next]_vars

(* ------------------- text_to_latex on its own inputs ------------------ *)
Pieces == {Prefix, LowerPrefix, <<" ">>, <<"x", "^", "2">>}

RECURSIVE Concat(_)
Concat(ps) == IF ps = <<>> THEN <<>> ELSE Head(ps) \o Concat(Tail(ps))

\* Response contents built from at most MaxPieces pieces.
Contents == {Concat(ps) : ps \in UNION {[1..n -> Pieces] : n \in 0..MaxPieces}}

InitLatex ==
  /\ Constructed
  /\ groq_io \in {[arg |-> "x squared", result |-> c] : c \in Contents}

\* latex_code = text_to_latex(text), the completion having answered
\* groq_io.result.
CallTextToLatex ==
  /\ req.groq = 0
  /\ latex_code' = text_to_latex(groq_io.result)
  /\ req' = [req EXCEPT !.groq = 1]
  /\ UNCHANGED <<rec_vars, harness_vars, app_recording, start_time,
                 transcribed_text, trans_text, latex_text, status_var,
                 btn_text, clipboard, after_update_ui, pc, pending, now,
                 tmpfiles, wav, groq_io>>

SpecLatex == InitLatex /\ [][CallTextToLatex]_vars

(* ============================== claims ================================ *)
\* Steps of the controller, told apart by what they do to pc and pending.
ToggleDispatched == pc = "loop" /\ pending # <<>> /\ pending' = Tail(pending)

StopAccepted == pc = "loop" /\ pc' = "transcribe"

TranscriptionFailedStep == pc = "transcribe" /\ pc' = "loop"

FormatStep == pc = "format" /\ pc' = "loop"

\* The content starts with the literal prefix, said character by character.
HasPrefix(c) ==
  /\ Len(c) >= Len(Prefix)
  /\ \A i \in 1..Len(Prefix) : c[i] = Prefix[i]

\* The result keeps everything but one leading prefix.
StrippedOnce(c, r) == IF HasPrefix(c) THEN Prefix \o r = c ELSE r = c

\* C1: with one session at a time, the buffer a stop_recording call returns
\* is exactly the sequence of samples the callback was handed since the
\* start_recording call of that session: same samples, same order, same
\* number, none from an earlier session.
C1_ReturnedIsDelivered ==
  [][(h_session = "armed" /\ h_session' = "idle" /\ ret'.kind = "returned")
       => ret'.buf = delivered]_vars

C1_Witness ==
  /\ ret.kind = "returned"
  /\ Len(ret.buf) = MaxAudio
  /\ ret.buf[1] # ret.buf[2]
  /\ leaked.active > 0

\* A session is running: the flag is set and the stream is started.
Armed == rec_recording /\ stream = "active"

\* C2: stop_recording on a recorder that is not armed raises and returns no
\* buffer, and start_recording on an armed recorder raises and leaves the
\* stream and the buffer as they were.
C2_MisuseRejected ==
  [][/\ (CallStop /\ ~Armed) => ret'.kind = "raised"
     /\ (CallStart /\ Armed)
          => (ret'.kind = "raised" /\ UNCHANGED <<stream, leaked, audio_data>>)
    ]_vars

\* C3: a toggle issued while stop_recording is running changes nothing when
\* the main loop gets to it: no recording starts, and flags, widgets, status
\* and stored results stay as they are.
C3_BusyToggleIgnored ==
  [][(ToggleDispatched /\ Head(pending).busy)
       => UNCHANGED <<app_recording, rec_vars, trans_text, latex_text,
                      transcribed_text, latex_code, status_var, btn_text>>
    ]_vars

\* C4: when transcription fails the controller is Idle afterwards, both
\* widgets show what they showed before the stop request, the formatter was
\* not called, one error box was raised, and the next toggle the loop
\* dispatches calls start_recording.
C4_TranscriptionFailure ==
  [][/\ StopAccepted => UNCHANGED <<trans_text, latex_text>>
     /\ TranscriptionFailedStep
          => /\ ~app_recording'
             /\ UNCHANGED <<trans_text, latex_text>>
             /\ req' = [whisper |-> 1, groq |-> 0, errs |-> 1]
     /\ (ToggleDispatched /\ ~app_recording) => rec_recording'
    ]_vars

C4_Witness ==
  /\ pc = "loop"
  /\ req = [whisper |-> 1, groq |-> 0, errs |-> 1]
  /\ trans_text = ExampleTranscript
  /\ latex_text = ExampleLatex
  /\ ~app_recording

\* C5: a start request in which opening or starting the stream fails raises
\* one error box, leaves the controller Idle and leaves the recorder's
\* recording flag false.
C5_FailedStartNotArmed ==
  [][(ToggleDispatched /\ ~app_recording /\ ~app_recording')
       => (req'.errs = 1 /\ pc' = "loop" /\ ~rec_recording')]_vars

\* C6: when the completion call fails after a transcription, it was called
\* once, one error box was raised, the controller is Idle, both widgets keep
\* their content and latex_code keeps its value.
C6_FormatterFailure ==
  [][(FormatStep /\ groq_io'.result = <<>>)
       => /\ req' = [whisper |-> 1, groq |-> 1, errs |-> 1]
          /\ ~app_recording'
          /\ UNCHANGED <<trans_text, latex_text, latex_code>>
    ]_vars

C6_Witness ==
  /\ pc = "loop"
  /\ req = [whisper |-> 1, groq |-> 1, errs |-> 1]
  /\ groq_io.result = <<>>
  /\ latex_text = ExampleLatex
  /\ latex_code = ExampleLatex
  /\ transcribed_text # trans_text

\* C7: text_to_latex gives back the response without one leading
\* "LaTeX code: " when the response starts with it, and the response itself
\* otherwise; nothing else is removed.
C7_StripsOnePrefix ==
  req.groq = 1 => StrippedOnce(groq_io.result, latex_code)

C7_Witness ==
  /\ req.groq = 1
  /\ groq_io.result = Prefix \o Prefix \o <<"x", "^", "2">>
  /\ latex_code = Prefix \o <<"x", "^", "2">>

\* C8: never more than one stream is open, and none while the controller is
\* Idle.
C8_OneStream ==
  /\ OpenStreams <= 1
  /\ CtlState = "Idle" => OpenStreams = 0

\* C9: the temporary .wav file a stop request created is gone when that
\* request finishes, however the transcription and the formatting end.
C9_ArtifactDiscarded ==
  [][(pc \in {"transcribe", "format"} /\ pc' = "loop")
       => tmpfiles' = tmpfiles - 1]_vars

\* C10: a stop request that succeeds throughout ends Idle, with the
\* transcript widget showing the text transcribed in this request from the
\* file holding this session's buffer, and the LaTeX widget showing the
\* response for that transcript less one leading prefix; the widgets change
\* in no other step, so both always show one session's results.
C10_HappyPath ==
  [][/\ StopAccepted => (wav' = audio_data /\ ~app_recording')
     /\ pc # "loop" => (wav = audio_data /\ wav' \in {wav, <<>>})
     /\ (pc = "format" /\ pc' = "format") => UNCHANGED transcribed_text
     /\ (pc = "transcribe" /\ pc' = "format") => req'.whisper = 1
     /\ (FormatStep /\ groq_io'.result # <<>>)
          => /\ ~app_recording'
             /\ req' = [whisper |-> 1, groq |-> 1, errs |-> 0]
             /\ trans_text' = transcribed_text
             /\ groq_io'.arg = trans_text'
             /\ StrippedOnce(groq_io'.result, latex_text')
     /\ (trans_text' # trans_text \/ latex_text' # latex_text)
          => (FormatStep /\ groq_io'.result # <<>>)
    ]_vars

C10_Witness ==
  /\ pc = "loop"
  /\ ~app_recording
  /\ trans_text = ExampleTranscript
  /\ groq_io = [arg |-> ExampleTranscript, result |-> Prefix \o ExampleLatex]
  /\ latex_text = ExampleLatex
  /\ req.errs = 0

\* C11: a recording starts only in a toggle the loop dispatches in Idle,
\* with no pipeline run in progress; while a pipeline run is in progress the
\* controller does not enter Recording and no stream is started.
C11_RecordingOnlyFromIdle ==
  [][/\ (~app_recording /\ app_recording')
          => (ToggleDispatched /\ CtlState = "Idle" /\ pc' = "loop" /\ wav = <<>>)
     /\ pc # "loop"
          => (~app_recording' /\ stream # "active" /\ stream' = stream)
     /\ CtlState = "Processing" => CtlState' # "Recording"
    ]_vars

C11_Witness ==
  /\ CtlState = "Recording"
  /\ stream = "active"
  /\ trans_text = ExampleTranscript
  /\ req = NoReq

\* C12: whenever the main thread is in the loop, what copy_text and
\* copy_latex would copy is what the two widgets show.
C12_CopyMatchesDisplay ==
  pc = "loop" => (transcribed_text = trans_text /\ latex_code = latex_text)

\* C13: the list grows or stays while a session is armed, does not change
\* while the flag is clear, and a buffer stop_recording returned stays as it
\* was returned.
C13_FrozenOnceDisarmed ==
  [][/\ (h_session = "armed" /\ h_session' = "armed")
          => Len(audio_data') >= Len(audio_data)
     /\ (~rec_recording /\ ~rec_recording') => audio_data' = audio_data
     /\ (ret.kind = "returned" /\ ret'.kind = "returned") => ret'.buf = ret.buf
    ]_vars

\* C14: a stop request that has finished, in whatever way, has left the
\* controller Idle.
C14_StopEndsIdle ==
  [][((ToggleDispatched /\ app_recording) \/ pc # "loop")
       => (pc' = "loop" => ~app_recording')]_vars

\* C15: between two handlers the controller's flag is set exactly when the
\* recorder's flag is set and its stream is started.
C15_FlagsAgree ==
  pc = "loop"
    => (app_recording = rec_recording /\ (app_recording <=> stream = "active"))

\* C16: update_ui leaves a timer scheduled; in Recording the start time is
\* set and the status becomes the elapsed time, which is not negative; in
\* Idle the status stays; flags, buffer, widgets and stored results stay.
C16_TimerFrame ==
  [][update_ui
       => /\ after_update_ui'
          /\ app_recording
               => /\ start_time # None
                  /\ status_var'.text = "Recording... %d seconds"
                  /\ status_var'.secs = now' - start_time
                  /\ status_var'.secs >= 0
          /\ ~app_recording => status_var' = status_var
          /\ UNCHANGED <<app_recording, rec_vars, pc, trans_text, latex_text,
                         transcribed_text, latex_code, clipboard, btn_text>>
    ]_vars

C16_Witness ==
  /\ app_recording
  /\ start_time = 0
  /\ status_var = [text |-> "Recording... %d seconds", secs |-> MaxTime]
====
